---- MODULE Spec2Model ----
(***************************************************************************)
(* LoRa gateway (lora_con.py): the radio session state machine.            *)
(*                                                                         *)
(* One sequential process, main(), talks to the radio over a serial line.  *)
(* The radio is the environment: it puts lines into the serial input       *)
(* buffer at any time.  Text that the program inspects character by        *)
(* character (received lines, hex payloads) is a sequence of one-character *)
(* strings; decoded payload text is a sequence of code points.  Commands   *)
(* are only ever written, never inspected, and stay plain strings.         *)
(***************************************************************************)
EXTENDS Integers, Sequences, FiniteSets, TLC

VARIABLES
    pc,         \* where main() is: open, cfg, cfg_ret, getver, poll, rearm, close, done
    ser,        \* self.ser: "none" (None), "open", "closed"
    rxbuf,      \* serial input buffer: lines the radio has sent and nobody has read
    step,       \* configure_gateway: index in ConfigSequence of the command in hand
    cfgCaller,  \* who called configure_gateway: "main" or "radio_err"
    cfgRet,     \* value configure_gateway handed back ("-" while none is pending)
    io,         \* send_command(_with_retry): "idle" before write, "sent" before
                \* readline, "ret" when send_command_with_retry has returned
    attempt,    \* loop variable of send_command_with_retry
    ack,        \* return value of send_command_with_retry
    exit,       \* how main's try block ended: "none" while it runs, else the
                \* exception that ended it
    handled,    \* number of non-empty messages the receive loop has processed
    \* ---- history variables (observations, never read by the program) ----
    lastCmd,    \* the most recent command handed to ser.write
    nsent,      \* ser.write calls made by the current send_command_with_retry call
    firstOk,    \* attempt of the current call whose response was an 'ok' (0: none)
    cfgRuns,    \* number of configure_gateway runs started
    errLines,   \* number of 'radio_err...' lines the receive loop has read
    cfgSent,    \* commands written during the current configuration run
    cfgFailed,  \* commands that exhausted their retries in the current run
    cfgErrResp, \* a 'radio_err...' line was read as a command response in this run
    msg,        \* the message the receive loop has just processed
    posted,     \* payloads handed to send_post_request for that message
    http,       \* what the POST of that payload met ("-" when none was made)
    rearmed,    \* the loop wrote 'radio rx 0' since it processed its last message
    logged,     \* the most severe log record made while processing that message
    nposts,     \* requests.post calls made for that message
    ncalls,     \* send_command calls made by the current send_command_with_retry call
    stale,      \* a line was already buffered when the command in flight was written
    stopSignal, \* the operator has interrupted
    cfgNonOk,   \* some response read during the current run was not an 'ok'
    cfgRepeatedAfterOk, \* a command of the run was written again although every
                \* response so far was an 'ok'
    cfgUncheckedAgain,  \* 'sys reset' or 'mac pause' was written a second time in the run
    cfgInOrder, \* every write of the run was of the command written last or of
                \* the next one in the fixed order
    \* ---- the codec, exercised on its own ----
    input_str,  \* input of string_to_hex (code points)
    hex_output, \* its result (NotEncoded before the call)
    decoded     \* hex_to_string of that result (NotDecoded before the call)

vars == << pc, ser, rxbuf, step, cfgCaller, cfgRet, io, attempt, ack, exit,
           handled, lastCmd, nsent, firstOk, cfgRuns, errLines, cfgSent,
           cfgFailed, cfgErrResp, msg, posted, http, rearmed, logged, nposts,
           ncalls, stale, stopSignal, cfgNonOk, cfgRepeatedAfterOk,
           cfgUncheckedAgain, cfgInOrder, input_str, hex_output, decoded >>

\* the codec's variables
codec == << input_str, hex_output, decoded >>

\* the variables of the gateway session
session ==
    << pc, ser, rxbuf, step, cfgCaller, cfgRet, io, attempt, ack, exit, handled,
       lastCmd, nsent, firstOk, cfgRuns, errLines, cfgSent, cfgFailed, cfgErrResp,
       msg, posted, http, rearmed, logged, nposts, ncalls, stale, stopSignal,
       cfgNonOk, cfgRepeatedAfterOk, cfgUncheckedAgain, cfgInOrder >>

\* the history of the configuration run in progress
cfgOrder == << cfgRepeatedAfterOk, cfgUncheckedAgain, cfgInOrder >>

----------------------------------------------------------------------------
(* Bounds of the model *)

\* capacity of the serial input buffer, in lines
MaxBuf == 1
\* number of messages the receive loop processes before the model stops reading
MaxMsgs == 2
\* the longest text given to the codec
MaxText == 1

----------------------------------------------------------------------------
(* Config *)

LORA_RESET_COMMAND == "sys reset"
LORA_MAC_PAUSE_COMMAND == "mac pause"
LORA_RADIO_BW_COMMAND == "radio set bw 125"
LORA_RADIO_CR_COMMAND == "radio set cr 4/5"
LORA_RADIO_PWR_COMMAND == "radio set pwr 20"
LORA_RADIO_FREQ_COMMAND == "radio set freq 910000000"
LORA_RADIO_SF_COMMAND == "radio set sf sf7"
LORA_RADIO_RX_COMMAND == "radio rx 0"
LORA_SYS_GET_VER_COMMAND == "sys get ver"
COMMAND_RETRIES == 3
SENSOR_ID == 123
GATEWAY_ID == "GATEWAY001"

----------------------------------------------------------------------------
(* Python string operations, on sequences of one-character strings *)

EmptyStr == << >>

UpperChars == << "A","B","C","D","E","F","G","H","I","J","K","L","M",
                 "N","O","P","Q","R","S","T","U","V","W","X","Y","Z" >>
LowerChars == << "a","b","c","d","e","f","g","h","i","j","k","l","m",
                 "n","o","p","q","r","s","t","u","v","w","x","y","z" >>

\* str.lower() on one character
LowerChar(c) ==
    IF \E i \in DOMAIN UpperChars : UpperChars[i] = c
    THEN LowerChars[CHOOSE i \in DOMAIN UpperChars : UpperChars[i] = c]
    ELSE c

\* str.lower()
Lower(s) == [i \in DOMAIN s |-> LowerChar(s[i])]

\* str.startswith(p)
StartsWith(s, p) == Len(s) >= Len(p) /\ SubSeq(s, 1, Len(p)) = p

IsSpace(c) == c \in {" ", "\t", "\r", "\n"}

\* str.strip()
RECURSIVE Strip(_)
Strip(s) ==
    IF s = << >> THEN s
    ELSE IF IsSpace(Head(s)) THEN Strip(Tail(s))
    ELSE IF IsSpace(s[Len(s)]) THEN Strip(SubSeq(s, 1, Len(s) - 1))
    ELSE s

\* str.split(): the maximal runs of non-whitespace characters, in order
RECURSIVE SplitFrom(_, _, _)
SplitFrom(s, cur, acc) ==
    IF s = << >> THEN (IF cur = << >> THEN acc ELSE Append(acc, cur))
    ELSE IF IsSpace(Head(s))
         THEN SplitFrom(Tail(s), << >>, IF cur = << >> THEN acc ELSE Append(acc, cur))
         ELSE SplitFrom(Tail(s), Append(cur, Head(s)), acc)

Split(s) == SplitFrom(s, << >>, << >>)

\* "\xFF" stands for one byte 0xFF on the wire: never valid in UTF-8
BadByte == "\\xFF"

\* bytes.decode('utf-8') of a received line: fails on an invalid byte
Decodable(line) == \A i \in DOMAIN line : line[i] # BadByte

\* bytes.decode('utf-8', errors='ignore') of a received line: drops invalid bytes
DecodeIgnore(line) == SelectSeq(line, LAMBDA c : c # BadByte)

----------------------------------------------------------------------------
(* Codec: hex_to_string and string_to_hex *)

HexDigits == << "0","1","2","3","4","5","6","7","8","9","a","b","c","d","e","f" >>

\* bytes.fromhex takes digits of either case
IsHexDigit(c) == \E i \in DOMAIN HexDigits : HexDigits[i] = LowerChar(c)

HexVal(c) == (CHOOSE i \in DOMAIN HexDigits : HexDigits[i] = LowerChar(c)) - 1

\* bytes.fromhex: ValueError unless an even number of hex digits
FromHexOk(hex) == Len(hex) % 2 = 0 /\ \A i \in DOMAIN hex : IsHexDigit(hex[i])

\* mutant: the two digits of each byte taken in the wrong order
FromHexSwapped(hex) == [i \in 1..(Len(hex) \div 2) |-> 16 * HexVal(hex[2*i]) + HexVal(hex[2*i - 1])]

FromHex(hex) == [i \in 1..(Len(hex) \div 2) |-> 16 * HexVal(hex[2*i - 1]) + HexVal(hex[2*i])]

\* bytes.decode('utf-8', errors='ignore') of payload bytes.  Exact for the
\* payloads of this model: ASCII bytes map to their code point, and a byte in
\* 0xF8..0xFF can start no UTF-8 sequence and is dropped.
Utf8Ignore(bytes) == SelectSeq(bytes, LAMBDA b : b < 128)

\* mutant: decodes the pairs of hex digits it finds instead of giving up
hex_to_string_lenient(hex_str) ==
    LET pairs == { i \in 1..(Len(hex_str) \div 2) :
                     IsHexDigit(hex_str[2*i - 1]) /\ IsHexDigit(hex_str[2*i]) }
        bytes == [i \in 1..(Len(hex_str) \div 2) |->
                     IF i \in pairs
                     THEN 16 * HexVal(hex_str[2*i - 1]) + HexVal(hex_str[2*i])
                     ELSE 255]
    IN  Utf8Ignore(bytes)

hex_to_string(hex_str) ==
    IF FromHexOk(hex_str) THEN Utf8Ignore(FromHex(hex_str)) ELSE << >>

UpperHexDigits == << "0","1","2","3","4","5","6","7","8","9","A","B","C","D","E","F" >>

\* the hexadecimal digits of n, most significant first, none leading
RECURSIVE HexDigitsOf(_)
HexDigitsOf(n) ==
    IF n < 16 THEN << UpperHexDigits[n + 1] >>
    ELSE Append(HexDigitsOf(n \div 16), UpperHexDigits[(n % 16) + 1])

\* format(n, '02X'): upper-case digits, zero-padded to a width of at least 2
Format02X(n) ==
    LET digits == HexDigitsOf(n) IN
    IF Len(digits) < 2 THEN << "0" >> \o digits ELSE digits

\* ''.join(format(ord(c), '02X') for c in input_str)
RECURSIVE string_to_hex(_)
string_to_hex(s) ==
    IF s = << >> THEN << >> ELSE Format02X(Head(s)) \o string_to_hex(Tail(s))

----------------------------------------------------------------------------
(* json.loads, on the decoded texts that occur in this model *)

\* {"TotalActivePower":7}
TextPower == << 123,34,84,111,116,97,108,65,99,116,105,118,101,80,111,119,101,114,34,58,55,125 >>
\* {}
TextEmptyObject == << 123,125 >>
\* [1]
TextList == << 91,49,93 >>
\* A dict is a function from its keys; JSONDecodeError is kind "error" (the
\* other decoded texts of the model, "Hello" and "", are not JSON).
json_loads(text) ==
    CASE text = TextPower       -> [kind |-> "dict", items |-> [k \in {"TotalActivePower"} |-> 7]]
      [] text = TextEmptyObject -> [kind |-> "dict", items |-> << >>]
      [] text = TextList        -> [kind |-> "list", items |-> << >>]
      [] OTHER                  -> [kind |-> "error", items |-> << >>]

\* mutant: the default is used even when the key is there
DictGetDefaultOnly(d, key, default) == default

\* dict.get(key, default)
DictGet(d, key, default) == IF key \in DOMAIN d THEN d[key] ELSE default

----------------------------------------------------------------------------
(* Lines the radio can put on the wire *)

Chars_ok == << "o","k" >>
Chars_OK == << "O","K" >>
Chars_invalid_param == << "i","n","v","a","l","i","d","_","p","a","r","a","m" >>
Chars_radio_err == << "r","a","d","i","o","_","e","r","r" >>
Chars_radio_rx == << "r","a","d","i","o","_","r","x" >>

\* radio_rx 7B22546F74616C416374697665506F776572223A377D
Line_rx_power == Chars_radio_rx \o << " ","7","B","2","2","5","4","6","F","7","4","6","1","6","C","4","1","6","3","7","4","6","9","7","6","6","5","5","0","6","F","7","7","6","5","7","2","2","2","3","A","3","7","7","D" >>
\* radio_rx 7B7D
Line_rx_empty_object == Chars_radio_rx \o << " ","7","B","7","D" >>
\* radio_rx 5B315D
Line_rx_list == Chars_radio_rx \o << " ","5","B","3","1","5","D" >>
\* radio_rx 48656C6C6F
Line_rx_hello == Chars_radio_rx \o << " ","4","8","6","5","6","C","6","C","6","F" >>
\* radio_rx 7B7D7  (odd number of hex digits; the first four are "{}")
Line_rx_odd == Chars_radio_rx \o << " ","7","B","7","D","7" >>
\* radio_rx 7B7DZZ  (not hex digits; the first four are "{}")
Line_rx_nonhex == Chars_radio_rx \o << " ","7","B","7","D","Z","Z" >>
\* one byte that is not UTF-8
Line_garbage == << BadByte >>

\* every line ends with the terminator "\r\n" on the wire
Wire(text) == text \o << "\r", "\n" >>

RadioLines ==
    { Wire(t) : t \in { Chars_ok, Chars_OK, Chars_invalid_param, Chars_radio_err,
                        Chars_radio_rx, Line_rx_power, Line_rx_empty_object,
                        Line_rx_list, Line_rx_hello, Line_rx_odd, Line_rx_nonhex,
                        Line_garbage } }

----------------------------------------------------------------------------
(* process_received_message: what it decides for one message *)

NoPost == << >>

\* action: "post" (send_post_request is called with post_data), "configure"
\* (configure_gateway is called), "none".  log: the most severe record logged.
Outcome(action, post_data, log) ==
    [action |-> action, post_data |-> post_data, log |-> log]

\* the 'radio_rx' branch
ProcessRadioRx(message) ==
    LET parts == Split(message) IN
    IF Len(parts) >= 2 THEN
        LET readable_message == hex_to_string(parts[2])
            data == json_loads(readable_message)
        IN  CASE data.kind = "error" ->
                   \* except json.JSONDecodeError: logged
                   Outcome("none", NoPost, "error")
              [] data.kind = "dict" ->
                   Outcome("post",
                           [sensor_id |-> SENSOR_ID,
                            gateway_id |-> GATEWAY_ID,
                            data_kwh |-> DictGet(data.items, "TotalActivePower", 0)],
                           "info")
              [] OTHER ->
                   \* data.items() raises AttributeError: "except Exception: pass"
                   Outcome("none", NoPost, "info")
    ELSE Outcome("none", NoPost, "error")

\* mutant: any line that is neither data nor an acknowledgment reconfigures
process_received_message_reconfigures_on_unexpected(message) ==
    IF StartsWith(message, Chars_radio_rx) THEN ProcessRadioRx(message)
    ELSE IF StartsWith(message, Chars_ok) THEN Outcome("none", NoPost, "debug")
    ELSE Outcome("configure", NoPost, "error")

process_received_message(message) ==
    IF StartsWith(message, Chars_radio_rx) THEN ProcessRadioRx(message)
    ELSE IF StartsWith(message, Chars_radio_err) THEN Outcome("configure", NoPost, "error")
    ELSE IF StartsWith(message, Chars_ok) THEN Outcome("none", NoPost, "debug")
    ELSE Outcome("none", NoPost, "warning")

----------------------------------------------------------------------------
(* configure_gateway: the command sequence and its failure policy *)

\* mutant: the frequency is set after the spreading factor
ConfigSequenceSfFirst ==
    << LORA_RESET_COMMAND, LORA_MAC_PAUSE_COMMAND, LORA_RADIO_BW_COMMAND,
       LORA_RADIO_CR_COMMAND, LORA_RADIO_PWR_COMMAND, LORA_RADIO_SF_COMMAND,
       LORA_RADIO_FREQ_COMMAND, LORA_RADIO_RX_COMMAND >>

ConfigSequence ==
    << LORA_RESET_COMMAND, LORA_MAC_PAUSE_COMMAND, LORA_RADIO_BW_COMMAND,
       LORA_RADIO_CR_COMMAND, LORA_RADIO_PWR_COMMAND, LORA_RADIO_FREQ_COMMAND,
       LORA_RADIO_SF_COMMAND, LORA_RADIO_RX_COMMAND >>

\* sent with send_command: the response is not looked at
Unchecked(command) == command \in {LORA_RESET_COMMAND, LORA_MAC_PAUSE_COMMAND}

\* mutant: only the bandwidth command is checked
FatalBandwidthOnly(command) == command = LORA_RADIO_BW_COMMAND

\* mutant: the frequency command is checked like the three before it
FatalWithFrequency(command) ==
    command \in {LORA_RADIO_BW_COMMAND, LORA_RADIO_CR_COMMAND, LORA_RADIO_PWR_COMMAND,
                 LORA_RADIO_FREQ_COMMAND}

\* "if not self.send_command_with_retry(...): raise Exception(...)"
Fatal(command) ==
    command \in {LORA_RADIO_BW_COMMAND, LORA_RADIO_CR_COMMAND, LORA_RADIO_PWR_COMMAND}

----------------------------------------------------------------------------
(* send_command and send_command_with_retry *)

\* mutant: the comparison without lower()
AcknowledgedCaseSensitive(response) == response = Chars_ok

\* response.lower() == "ok"
Acknowledged(response) == Lower(response) = Chars_ok

\* mutant: range(1, COMMAND_RETRIES)
MoreAttemptsOneShort(n) == n < COMMAND_RETRIES - 1

\* for attempt in range(1, COMMAND_RETRIES + 1): is there another iteration
MoreAttempts(n) == n < COMMAND_RETRIES

\* The command the running send_command call writes.
CurrentCommand ==
    CASE pc = "cfg"    -> ConfigSequence[step]
      [] pc = "getver" -> LORA_SYS_GET_VER_COMMAND
      [] pc = "rearm"  -> LORA_RADIO_RX_COMMAND

\* The call in hand is a send_command_with_retry call.
InRetry == pc = "rearm" \/ (pc = "cfg" /\ ~Unchecked(ConfigSequence[step]))

\* What "self.ser.readline().decode('utf-8').strip()" can give send_command,
\* with the input buffer it leaves: the oldest buffered line; "" after the
\* read timeout when nothing is buffered; "" when the line is not UTF-8
\* (UnicodeDecodeError); "" when the port fails (SerialException).
ReadOutcomes ==
    (IF rxbuf = << >>
     THEN { [resp |-> EmptyStr, buf |-> rxbuf] }
     ELSE { [resp |-> IF Decodable(Head(rxbuf)) THEN Strip(Head(rxbuf)) ELSE EmptyStr,
             buf |-> Tail(rxbuf)] })
    \cup { [resp |-> EmptyStr, buf |-> rxbuf] }

\* The two commands configure_gateway hands to send_command directly.
UncheckedCommands == { c \in { ConfigSequence[i] : i \in 1..Len(ConfigSequence) } : Unchecked(c) }

\* The order in which a configuration run is expected to write its commands.
FixedOrder ==
    << "sys reset", "mac pause", "radio set bw 125", "radio set cr 4/5",
       "radio set pwr 20", "radio set freq 910000000", "radio set sf sf7",
       "radio rx 0" >>

\* Writing command now keeps the run's writes in the fixed order: it is the
\* command written last (a retry), or the first one not written yet.
FollowsFixedOrder(command) ==
    \/ cfgSent # {} /\ command = lastCmd
    \/ /\ command \notin cfgSent
       /\ Cardinality(cfgSent) < Len(FixedOrder)
       /\ command = FixedOrder[Cardinality(cfgSent) + 1]

----------------------------------------------------------------------------
(* The state machine *)

NoMsg == << >>

\* string_to_hex has not returned yet (no result of it: "-" is no hex digit)
NotEncoded == << "-" >>

\* hex_to_string has not returned yet (no result of it: -1 is no code point)
NotDecoded == << -1 >>

Init ==
    /\ pc = "open"
    /\ ser = "none"
    /\ rxbuf = << >>
    /\ step = 0
    /\ cfgCaller = "-"
    /\ cfgRet = "-"
    /\ io = "idle"
    /\ attempt = 1
    /\ ack = FALSE
    /\ exit = "none"
    /\ handled = 0
    /\ lastCmd = "-"
    /\ nsent = 0
    /\ firstOk = 0
    /\ cfgRuns = 0
    /\ errLines = 0
    /\ cfgSent = {}
    /\ cfgFailed = {}
    /\ cfgErrResp = FALSE
    /\ msg = NoMsg
    /\ posted = << >>
    /\ http = "-"
    /\ rearmed = FALSE
    /\ logged = "-"
    /\ nposts = 0
    /\ ncalls = 0
    /\ stale = FALSE
    /\ stopSignal = FALSE
    /\ cfgNonOk = FALSE
    /\ cfgRepeatedAfterOk = FALSE
    /\ cfgUncheckedAgain = FALSE
    /\ cfgInOrder = TRUE
    /\ input_str = << >>
    /\ hex_output = NotEncoded
    /\ decoded = NotDecoded

\* A send_command or send_command_with_retry call starts.
StartCall ==
    /\ io' = "idle"
    /\ attempt' = 1
    /\ ack' = FALSE
    /\ nsent' = 0
    /\ firstOk' = 0
    /\ ncalls' = 0
    /\ stale' = FALSE

\* configure_gateway is entered.
EnterConfigure(caller) ==
    /\ pc' = "cfg"
    /\ step' = 1
    /\ cfgCaller' = caller
    /\ cfgRet' = "-"
    /\ cfgRuns' = cfgRuns + 1
    /\ cfgSent' = {}
    /\ cfgFailed' = {}
    /\ cfgErrResp' = FALSE
    /\ cfgNonOk' = FALSE
    /\ cfgRepeatedAfterOk' = FALSE
    /\ cfgUncheckedAgain' = FALSE
    /\ cfgInOrder' = TRUE
    /\ StartCall

\* No configuration run is in progress any more.
EndRun ==
    /\ step' = 0
    /\ cfgCaller' = "-"
    /\ cfgRet' = "-"
    /\ cfgSent' = {}
    /\ cfgFailed' = {}
    /\ cfgErrResp' = FALSE
    /\ cfgNonOk' = FALSE
    /\ cfgRepeatedAfterOk' = FALSE
    /\ cfgUncheckedAgain' = FALSE
    /\ cfgInOrder' = TRUE

\* The exceptions configure_gateway's "except Exception" catches:
\* KeyboardInterrupt derives from BaseException, not from Exception.
ConfigureCatchesAll(exc) == TRUE

ConfigureCatches(exc) == exc # "KeyboardInterrupt"

\* The radio: a line arrives in the input buffer of the open port.
RadioEmit ==
    /\ ser = "open"
    /\ Len(rxbuf) < MaxBuf
    /\ \E line \in RadioLines : rxbuf' = Append(rxbuf, line)
    /\ UNCHANGED << pc, ser, step, cfgCaller, cfgRet, io, attempt, ack, exit,
                    handled, lastCmd, nsent, firstOk, cfgRuns, errLines, cfgSent,
                    cfgFailed, cfgErrResp, msg, posted, http, rearmed >>
    /\ UNCHANGED << logged, nposts, ncalls, stale, stopSignal, cfgNonOk, cfgOrder, codec >>

\* main: open_connection succeeds (the buffers are flushed), then
\* configure_gateway is called.
OpenConnection ==
    /\ pc = "open"
    /\ ser' = "open"
    /\ rxbuf' = << >>
    /\ EnterConfigure("main")
    /\ UNCHANGED << exit, handled, lastCmd, errLines, msg, posted, http, rearmed >>
    /\ UNCHANGED << logged, nposts, stopSignal, codec >>

\* main: serial.Serial raises SerialException; open_connection re-raises it
\* and main's "except serial.SerialException" logs it.
OpenFails ==
    /\ pc = "open"
    /\ pc' = "close"
    /\ exit' = "SerialException"
    /\ UNCHANGED << ser, rxbuf, step, cfgCaller, cfgRet, io, attempt, ack,
                    handled, lastCmd, nsent, firstOk, cfgRuns, errLines, cfgSent,
                    cfgFailed, cfgErrResp, msg, posted, http, rearmed >>
    /\ UNCHANGED << logged, nposts, ncalls, stale, stopSignal, cfgNonOk, cfgOrder, codec >>

\* send_command's test "not self.ser or not self.ser.is_open", negated
PortUsableNoneOnly == ser # "none"

PortUsable == ser = "open"

\* send_command: the port is open, so the command is handed to ser.write.
SendWrite ==
    /\ pc \in {"cfg", "getver", "rearm"}
    /\ io = "idle"
    /\ PortUsable
    /\ io' = "sent"
    /\ lastCmd' = CurrentCommand
    /\ nsent' = nsent + 1
    /\ cfgSent' = IF pc = "cfg" THEN cfgSent \cup {CurrentCommand} ELSE cfgSent
    /\ rearmed' = (rearmed \/ pc = "rearm")
    /\ msg' = NoMsg
    /\ posted' = << >>
    /\ http' = "-"
    /\ UNCHANGED << pc, ser, rxbuf, step, cfgCaller, cfgRet, attempt, ack, exit,
                    handled, firstOk, cfgRuns, errLines, cfgFailed, cfgErrResp >>
    /\ ncalls' = ncalls + 1
    /\ stale' = (rxbuf # << >>)
    /\ logged' = "-"
    /\ nposts' = 0
    /\ cfgRepeatedAfterOk' =
          (cfgRepeatedAfterOk \/ (pc = "cfg" /\ ~cfgNonOk /\ CurrentCommand \in cfgSent))
    /\ cfgUncheckedAgain' =
          (cfgUncheckedAgain \/ (pc = "cfg" /\ CurrentCommand \in cfgSent \cap UncheckedCommands))
    /\ cfgInOrder' = (cfgInOrder /\ (pc = "cfg" => FollowsFixedOrder(CurrentCommand)))
    /\ UNCHANGED << stopSignal, cfgNonOk, codec >>

\* configure_gateway, 'sys reset' and 'mac pause': send_command returns, the
\* response is dropped, the next command is in hand.
CfgUnchecked ==
    /\ pc = "cfg"
    /\ io = "sent"
    /\ ~InRetry
    /\ \E o \in ReadOutcomes :
          /\ rxbuf' = o.buf
          /\ cfgErrResp' = (cfgErrResp \/ StartsWith(o.resp, Chars_radio_err))
          /\ cfgNonOk' = (cfgNonOk \/ ~Acknowledged(o.resp))
    /\ step' = step + 1
    /\ StartCall
    /\ UNCHANGED << pc, ser, cfgCaller, cfgRet, exit, handled, lastCmd, cfgRuns,
                    errLines, cfgSent, cfgFailed, msg, posted, http, rearmed >>
    /\ UNCHANGED << logged, nposts, stopSignal, cfgOrder, codec >>

\* send_command_with_retry: send_command returns its response; the loop
\* returns True, goes round again, or runs out and returns False.
RetryResponse ==
    /\ pc \in {"cfg", "rearm"}
    /\ io = "sent"
    /\ InRetry
    /\ \E o \in ReadOutcomes :
          /\ rxbuf' = o.buf
          /\ cfgErrResp' = (cfgErrResp \/ (pc = "cfg" /\ StartsWith(o.resp, Chars_radio_err)))
          /\ firstOk' = IF firstOk = 0 /\ o.resp \in {Chars_ok, Chars_OK} THEN attempt ELSE firstOk
          /\ cfgNonOk' = (cfgNonOk \/ (pc = "cfg" /\ ~Acknowledged(o.resp)))
          /\ IF Acknowledged(o.resp)
             THEN io' = "ret" /\ ack' = TRUE /\ attempt' = attempt
             ELSE IF MoreAttempts(attempt)
                  THEN io' = "idle" /\ ack' = FALSE /\ attempt' = attempt + 1
                  ELSE io' = "ret" /\ ack' = FALSE /\ attempt' = attempt
    /\ UNCHANGED << pc, ser, step, cfgCaller, cfgRet, exit, handled, lastCmd, nsent,
                    cfgRuns, errLines, cfgSent, cfgFailed, msg, posted, http, rearmed >>
    /\ UNCHANGED << logged, nposts, ncalls, stale, stopSignal, cfgOrder, codec >>

\* configure_gateway: send_command_with_retry has returned and the sequence
\* goes on (acknowledged, or a failure that is only logged).
CfgContinue ==
    /\ pc = "cfg"
    /\ io = "ret"
    /\ ack \/ ~Fatal(ConfigSequence[step])
    /\ cfgFailed' = IF ack THEN cfgFailed ELSE cfgFailed \cup {ConfigSequence[step]}
    /\ IF step < Len(ConfigSequence)
       THEN /\ step' = step + 1
            /\ StartCall
            /\ UNCHANGED << pc, cfgRet >>
       ELSE /\ pc' = "cfg_ret"
            /\ cfgRet' = "None"
            /\ UNCHANGED << step, io, attempt, ack, nsent, firstOk, ncalls, stale >>
    /\ UNCHANGED << ser, rxbuf, cfgCaller, exit, handled, lastCmd, cfgRuns, errLines,
                    cfgSent, cfgErrResp, msg, posted, http, rearmed >>
    /\ UNCHANGED << logged, nposts, stopSignal, cfgNonOk, cfgOrder, codec >>

\* configure_gateway: a bandwidth, coding-rate or power command failed; the
\* Exception raised is caught by the function's own "except Exception",
\* logged, and the function returns.
CfgAbort ==
    /\ pc = "cfg"
    /\ io = "ret"
    /\ ~ack
    /\ Fatal(ConfigSequence[step])
    /\ cfgFailed' = cfgFailed \cup {ConfigSequence[step]}
    /\ pc' = "cfg_ret"
    /\ cfgRet' = "None"
    /\ UNCHANGED << ser, rxbuf, step, cfgCaller, io, attempt, ack, exit, handled,
                    lastCmd, nsent, firstOk, cfgRuns, errLines, cfgSent, cfgErrResp,
                    msg, posted, http, rearmed >>
    /\ UNCHANGED << logged, nposts, ncalls, stale, stopSignal, cfgNonOk, cfgOrder, codec >>

\* configure_gateway has returned.  main goes on to get_system_version;
\* process_received_message returns to the receive loop, which re-issues
\* 'radio rx 0'.
CfgReturn ==
    /\ pc = "cfg_ret"
    /\ pc' = IF cfgCaller = "main" THEN "getver" ELSE "rearm"
    /\ EndRun
    /\ StartCall
    /\ UNCHANGED << ser, rxbuf, exit, handled, lastCmd, cfgRuns, errLines, msg,
                    posted, http, rearmed >>
    /\ UNCHANGED << logged, nposts, stopSignal, codec >>

\* get_system_version: send_command returns, the version is logged, and
\* main calls listen_for_messages.
GetVersionDone ==
    /\ pc = "getver"
    /\ io = "sent"
    /\ \E o \in ReadOutcomes : rxbuf' = o.buf
    /\ pc' = "poll"
    /\ StartCall
    /\ UNCHANGED << ser, step, cfgCaller, cfgRet, exit, handled, lastCmd, cfgRuns,
                    errLines, cfgSent, cfgFailed, cfgErrResp, msg, posted, http, rearmed >>
    /\ UNCHANGED << logged, nposts, stopSignal, cfgNonOk, cfgOrder, codec >>

\* mutant: the receive command is re-issued after data packets only
ReissuesReceiveAfterDataOnly(message) == StartsWith(message, Chars_radio_rx)

\* listen_for_messages, after process_received_message has returned: the
\* receive command is re-issued whatever the message was.
ReissuesReceive(message) == TRUE

\* requests.post as send_post_request sees it; each case is logged and
\* send_post_request returns.
\* send_post_request: one requests.post call whatever its outcome; a
\* RequestException is caught and logged, nothing is raised to the caller
\* and nothing is kept for later.
send_post_request_retrying(outcome) ==
    [ attempts |-> IF outcome \in {"not 200", "RequestException"} THEN 2 ELSE 1,
      log      |-> CASE outcome = "200 json"     -> "info"
                     [] outcome = "200 not json" -> "warning"
                     [] OTHER                    -> "error" ]

send_post_request(outcome) ==
    [ attempts |-> 1,
      log      |-> CASE outcome = "200 json"     -> "info"
                     [] outcome = "200 not json" -> "warning"
                     [] OTHER                    -> "error" ]

HttpOutcomes == {"200 json", "200 not json", "not 200", "RequestException"}

\* The line the loop reads: readline().decode('utf-8', errors='ignore').strip()
RawMessage == Strip(DecodeIgnore(Head(rxbuf)))

\* listen_for_messages: input is waiting, and the line read is empty after
\* decoding and stripping: nothing is done with it.
ListenBlank ==
    /\ pc = "poll"
    /\ rxbuf # << >>
    /\ RawMessage = EmptyStr
    /\ rxbuf' = Tail(rxbuf)
    /\ UNCHANGED << pc, ser, step, cfgCaller, cfgRet, io, attempt, ack, exit,
                    handled, lastCmd, nsent, firstOk, cfgRuns, errLines, cfgSent,
                    cfgFailed, cfgErrResp, msg, posted, http, rearmed >>
    /\ UNCHANGED << logged, nposts, ncalls, stale, stopSignal, cfgNonOk, cfgOrder, codec >>

\* listen_for_messages: a message is read and process_received_message
\* handles it without calling configure_gateway; then the loop goes on to
\* re-issue the receive command.
ListenProcess ==
    /\ pc = "poll"
    /\ rxbuf # << >>
    /\ handled < MaxMsgs
    /\ RawMessage # EmptyStr
    /\ LET r == process_received_message(RawMessage) IN
          /\ r.action # "configure"
          /\ posted' = IF r.action = "post" THEN << r.post_data >> ELSE << >>
          /\ IF r.action = "post"
             THEN \E outcome \in HttpOutcomes :
                     /\ http' = outcome
                     /\ nposts' = send_post_request(outcome).attempts
                     /\ logged' = send_post_request(outcome).log
             ELSE /\ http' = "-"
                  /\ nposts' = 0
                  /\ logged' = r.log
    /\ msg' = RawMessage
    /\ rxbuf' = Tail(rxbuf)
    /\ handled' = handled + 1
    /\ errLines' = errLines + (IF StartsWith(RawMessage, Chars_radio_err) THEN 1 ELSE 0)
    /\ rearmed' = FALSE
    /\ pc' = IF ReissuesReceive(RawMessage) THEN "rearm" ELSE "poll"
    /\ StartCall
    /\ UNCHANGED << ser, step, cfgCaller, cfgRet, exit, lastCmd, cfgRuns, cfgSent,
                    cfgFailed, cfgErrResp >>
    /\ UNCHANGED << stopSignal, cfgNonOk, cfgOrder, codec >>

\* listen_for_messages: a message is read and process_received_message
\* calls configure_gateway for it.
ListenConfigure ==
    /\ pc = "poll"
    /\ rxbuf # << >>
    /\ handled < MaxMsgs
    /\ RawMessage # EmptyStr
    /\ process_received_message(RawMessage).action = "configure"
    /\ msg' = RawMessage
    /\ posted' = << >>
    /\ http' = "-"
    /\ rxbuf' = Tail(rxbuf)
    /\ handled' = handled + 1
    /\ errLines' = errLines + (IF StartsWith(RawMessage, Chars_radio_err) THEN 1 ELSE 0)
    /\ rearmed' = FALSE
    /\ EnterConfigure("radio_err")
    /\ logged' = process_received_message(RawMessage).log
    /\ nposts' = 0
    /\ UNCHANGED << ser, exit, lastCmd >>
    /\ UNCHANGED << stopSignal, codec >>

\* send_command_with_retry('radio rx 0') has returned to the receive loop;
\* a failure is logged; the loop sleeps and polls again.
RearmDone ==
    /\ pc = "rearm"
    /\ io = "ret"
    /\ pc' = "poll"
    /\ StartCall
    /\ UNCHANGED << ser, rxbuf, step, cfgCaller, cfgRet, exit, handled, lastCmd,
                    cfgRuns, errLines, cfgSent, cfgFailed, cfgErrResp, msg, posted,
                    http, rearmed >>
    /\ UNCHANGED << logged, nposts, stopSignal, cfgNonOk, cfgOrder, codec >>

\* listen_for_messages: in_waiting or readline raises; "except Exception"
\* around the loop logs it and the function returns to main.
ListenFault ==
    /\ pc = "poll"
    /\ pc' = "close"
    /\ exit' = "listen error"
    /\ UNCHANGED << ser, rxbuf, step, cfgCaller, cfgRet, io, attempt, ack,
                    handled, lastCmd, nsent, firstOk, cfgRuns, errLines, cfgSent,
                    cfgFailed, cfgErrResp, msg, posted, http, rearmed >>
    /\ UNCHANGED << logged, nposts, ncalls, stale, stopSignal, cfgNonOk, cfgOrder, codec >>

\* main is inside listen_for_messages (configure_gateway included, when the
\* loop called it).
InListen == pc \in {"poll", "rearm"} \/ (pc \in {"cfg", "cfg_ret"} /\ cfgCaller = "radio_err")

\* The operator interrupts (KeyboardInterrupt).  No "except Exception"
\* catches it: inside listen_for_messages the loop's "except
\* KeyboardInterrupt" ends the function; before that it leaves main through
\* the finally clause.
Interrupt ==
    /\ pc \in {"cfg", "cfg_ret", "getver", "poll", "rearm"}
    /\ stopSignal' = TRUE
    /\ IF pc = "cfg" /\ ConfigureCatches("KeyboardInterrupt")
       THEN /\ pc' = "cfg_ret"
            /\ cfgRet' = "None"
            /\ UNCHANGED << step, cfgCaller, io, attempt, ack, exit, nsent, firstOk,
                            cfgSent, cfgFailed, cfgErrResp, msg, posted, http,
                            logged, nposts, ncalls, stale, cfgNonOk, cfgOrder >>
       ELSE /\ pc' = "close"
            /\ exit' = IF InListen THEN "KeyboardInterrupt in listen"
                                   ELSE "KeyboardInterrupt"
            /\ EndRun
            /\ StartCall
            /\ msg' = NoMsg
            /\ posted' = << >>
            /\ http' = "-"
            /\ logged' = "-"
            /\ nposts' = 0
    /\ UNCHANGED << ser, rxbuf, handled, lastCmd, cfgRuns, errLines, rearmed >>
    /\ UNCHANGED codec

\* main's finally clause: close_connection.
CloseConnection ==
    /\ pc = "close"
    /\ ser' = IF ser = "open" THEN "closed" ELSE ser
    /\ pc' = "done"
    /\ UNCHANGED << rxbuf, step, cfgCaller, cfgRet, io, attempt, ack, exit,
                    handled, lastCmd, nsent, firstOk, cfgRuns, errLines, cfgSent,
                    cfgFailed, cfgErrResp, msg, posted, http, rearmed >>
    /\ UNCHANGED << logged, nposts, ncalls, stale, stopSignal, cfgNonOk, cfgOrder, codec >>

Next ==
    \/ RadioEmit
    \/ OpenConnection
    \/ OpenFails
    \/ SendWrite
    \/ CfgUnchecked
    \/ RetryResponse
    \/ CfgContinue
    \/ CfgAbort
    \/ CfgReturn
    \/ GetVersionDone
    \/ ListenBlank
    \/ ListenProcess
    \/ ListenConfigure
    \/ RearmDone
    \/ ListenFault
    \/ Interrupt
    \/ CloseConnection

Spec == Init /\ [][Next]_vars

----------------------------------------------------------------------------
(* The codec on its own: string_to_hex, then hex_to_string of its result *)

\* the printable ASCII characters
PrintableAscii == 32..126

\* the characters of the inputs: printable ASCII, and two that are not
\* (U+00E9 and U+20AC)
CodecChars == PrintableAscii \cup {233, 8364}

CodecInputs == UNION { [1..n -> CodecChars] : n \in 0..MaxText }

InitCodec ==
    /\ input_str \in CodecInputs
    /\ hex_output = NotEncoded
    /\ decoded = NotDecoded
    /\ pc = "codec"
    /\ ser = "none"
    /\ rxbuf = << >>
    /\ step = 0
    /\ cfgCaller = "-"
    /\ cfgRet = "-"
    /\ io = "idle"
    /\ attempt = 1
    /\ ack = FALSE
    /\ exit = "none"
    /\ handled = 0
    /\ lastCmd = "-"
    /\ nsent = 0
    /\ firstOk = 0
    /\ cfgRuns = 0
    /\ errLines = 0
    /\ cfgSent = {}
    /\ cfgFailed = {}
    /\ cfgErrResp = FALSE
    /\ msg = NoMsg
    /\ posted = << >>
    /\ http = "-"
    /\ rearmed = FALSE
    /\ logged = "-"
    /\ nposts = 0
    /\ ncalls = 0
    /\ stale = FALSE
    /\ stopSignal = FALSE
    /\ cfgNonOk = FALSE
    /\ cfgRepeatedAfterOk = FALSE
    /\ cfgUncheckedAgain = FALSE
    /\ cfgInOrder = TRUE

\* hex_output = string_to_hex(input_str)
Encode ==
    /\ pc = "codec"
    /\ hex_output = NotEncoded
    /\ hex_output' = string_to_hex(input_str)
    /\ UNCHANGED << input_str, decoded >>
    /\ UNCHANGED session

\* decoded = hex_to_string(hex_output)
Decode ==
    /\ pc = "codec"
    /\ hex_output # NotEncoded
    /\ decoded = NotDecoded
    /\ decoded' = hex_to_string(hex_output)
    /\ UNCHANGED << input_str, hex_output >>
    /\ UNCHANGED session

NextCodec == Encode \/ Decode

SpecCodec == InitCodec /\ [][NextCodec]_vars

----------------------------------------------------------------------------
(* The command methods called on a manager whose port may not be open *)

\* send_command finds no open port: it logs, writes nothing, reads nothing
\* and returns "" at once.  Its caller goes on as for any other response:
\* configure_gateway drops it ('sys reset', 'mac pause');
\* send_command_with_retry counts a failed attempt.
SendNotOpen ==
    /\ pc \in {"cfg", "rearm"}
    /\ io = "idle"
    /\ ~PortUsable
    /\ cfgNonOk' = (cfgNonOk \/ (pc = "cfg" /\ ~Acknowledged(EmptyStr)))
    /\ IF InRetry
       THEN /\ ncalls' = ncalls + 1
            /\ IF Acknowledged(EmptyStr)
               THEN io' = "ret" /\ ack' = TRUE /\ attempt' = attempt
               ELSE IF MoreAttempts(attempt)
                    THEN io' = "idle" /\ ack' = FALSE /\ attempt' = attempt + 1
                    ELSE io' = "ret" /\ ack' = FALSE /\ attempt' = attempt
            /\ UNCHANGED << step, nsent, firstOk, stale >>
       ELSE /\ step' = step + 1
            /\ StartCall
    /\ UNCHANGED << pc, ser, rxbuf, cfgCaller, cfgRet, exit, handled, lastCmd,
                    cfgRuns, errLines, cfgSent, cfgFailed, cfgErrResp, msg, posted,
                    http, rearmed, logged, nposts, stopSignal, cfgOrder, codec >>

\* The method called has returned to its caller.
ApiReturn ==
    /\ pc = "cfg_ret" \/ (pc = "rearm" /\ io = "ret")
    /\ pc' = "done"
    /\ UNCHANGED << ser, rxbuf, step, cfgCaller, cfgRet, io, attempt, ack, exit,
                    handled, lastCmd, nsent, firstOk, cfgRuns, errLines, cfgSent,
                    cfgFailed, cfgErrResp, msg, posted, http, rearmed, logged,
                    nposts, ncalls, stale, stopSignal, cfgNonOk, cfgOrder, codec >>

\* A LoRaManager whose port was never opened (self.ser is None), was closed,
\* or is open; configure_gateway or send_command_with_retry('radio rx 0')
\* is called on it.
InitApi ==
    /\ ser \in {"none", "closed", "open"}
    /\ \/ pc = "cfg" /\ step = 1 /\ cfgCaller = "api" /\ cfgRuns = 1
       \/ pc = "rearm" /\ step = 0 /\ cfgCaller = "-" /\ cfgRuns = 0
    /\ rxbuf = << >>
    /\ cfgRet = "-"
    /\ io = "idle"
    /\ attempt = 1
    /\ ack = FALSE
    /\ exit = "none"
    /\ handled = 0
    /\ lastCmd = "-"
    /\ nsent = 0
    /\ firstOk = 0
    /\ errLines = 0
    /\ cfgSent = {}
    /\ cfgFailed = {}
    /\ cfgErrResp = FALSE
    /\ msg = NoMsg
    /\ posted = << >>
    /\ http = "-"
    /\ rearmed = FALSE
    /\ logged = "-"
    /\ nposts = 0
    /\ ncalls = 0
    /\ stale = FALSE
    /\ stopSignal = FALSE
    /\ cfgNonOk = FALSE
    /\ cfgRepeatedAfterOk = FALSE
    /\ cfgUncheckedAgain = FALSE
    /\ cfgInOrder = TRUE
    /\ input_str = << >>
    /\ hex_output = NotEncoded
    /\ decoded = NotDecoded

NextApi ==
    \/ RadioEmit
    \/ SendWrite
    \/ SendNotOpen
    \/ CfgUnchecked
    \/ RetryResponse
    \/ CfgContinue
    \/ CfgAbort
    \/ ApiReturn

SpecApi == InitApi /\ [][NextApi]_vars

----------------------------------------------------------------------------
(* Properties *)

FatalCommands ==
    {LORA_RADIO_BW_COMMAND, LORA_RADIO_CR_COMMAND, LORA_RADIO_PWR_COMMAND}

\* C1: whenever the receive loop is at its poll, the most recent command
\* written to the channel is the receive-mode command 'radio rx 0'.
C1_ReceiveModeAtEveryPoll ==
    pc = "poll" => lastCmd = LORA_RADIO_RX_COMMAND

\* C2: when the receive loop is back at its poll after handling a message,
\* it has written 'radio rx 0' since it handled that message, and that is
\* the last command written.
C2_ReissueBeforeNextPoll ==
    (pc = "poll" /\ handled > 0) => (rearmed /\ lastCmd = LORA_RADIO_RX_COMMAND)

\* two messages were handled, each followed by the re-issue
C2_Witness ==
    pc = "poll" /\ handled = MaxMsgs /\ rearmed /\ cfgRuns = 1

\* C3: once a bandwidth, coding-rate or power command has exhausted its
\* retries, the run has written nothing after that command and has returned
\* to its caller without an exception.
C3_FatalFailureAborts ==
    /\ (cfgFailed \cap FatalCommands # {}) => (pc = "cfg_ret" /\ exit = "none")
    /\ LORA_RADIO_BW_COMMAND \in cfgFailed =>
          cfgSent = {LORA_RESET_COMMAND, LORA_MAC_PAUSE_COMMAND, LORA_RADIO_BW_COMMAND}
    /\ LORA_RADIO_CR_COMMAND \in cfgFailed =>
          cfgSent = {LORA_RESET_COMMAND, LORA_MAC_PAUSE_COMMAND, LORA_RADIO_BW_COMMAND,
                     LORA_RADIO_CR_COMMAND}
    /\ LORA_RADIO_PWR_COMMAND \in cfgFailed =>
          cfgSent = {LORA_RESET_COMMAND, LORA_MAC_PAUSE_COMMAND, LORA_RADIO_BW_COMMAND,
                     LORA_RADIO_CR_COMMAND, LORA_RADIO_PWR_COMMAND}

\* the coding-rate command of a reconfiguration run has failed
C3_Witness ==
    /\ pc = "cfg_ret"
    /\ cfgCaller = "radio_err"
    /\ cfgFailed = {LORA_RADIO_CR_COMMAND}

\* C4: a configuration run in which a bandwidth, coding-rate or power command
\* exhausted its retries does not hand its caller the value (None) that a
\* run acknowledged throughout hands back.
C4_FailureIsReported ==
    (pc = "cfg_ret" /\ cfgFailed \cap FatalCommands # {}) => cfgRet # "None"

\* C5: a failed frequency, spreading-factor or receive-mode command does not
\* end the run with an exception, and a run that has returned after a failed
\* frequency (spreading-factor) command has attempted the spreading-factor
\* and receive-mode (the receive-mode) commands, in that order.
C5_NonFatalFailuresContinue ==
    /\ (cfgFailed \ FatalCommands # {}) => (pc \in {"cfg", "cfg_ret"} /\ exit = "none")
    /\ (pc = "cfg_ret" /\ LORA_RADIO_FREQ_COMMAND \in cfgFailed) =>
          {LORA_RADIO_SF_COMMAND, LORA_RADIO_RX_COMMAND} \subseteq cfgSent
    /\ (pc = "cfg_ret" /\ LORA_RADIO_SF_COMMAND \in cfgFailed) =>
          LORA_RADIO_RX_COMMAND \in cfgSent
    /\ LORA_RADIO_RX_COMMAND \in cfgFailed => pc = "cfg_ret"
    /\ LORA_RADIO_RX_COMMAND \in cfgSent => LORA_RADIO_SF_COMMAND \in cfgSent
    /\ LORA_RADIO_SF_COMMAND \in cfgSent =>
          (LORA_RADIO_FREQ_COMMAND \in cfgSent /\ cfgFailed \cap FatalCommands = {})

\* frequency, spreading factor and receive mode all failed, and the run returned
C5_Witness ==
    /\ pc = "cfg_ret"
    /\ cfgFailed = {LORA_RADIO_FREQ_COMMAND, LORA_RADIO_SF_COMMAND, LORA_RADIO_RX_COMMAND}

\* send_command_with_retry has returned and its caller has not gone on yet
Returned == pc \in {"cfg", "rearm"} /\ io = "ret"

\* C6: send_command_with_retry returns false exactly when no response of
\* the call was an 'ok', and then it has made exactly COMMAND_RETRIES writes,
\* all of the same command.
C6_ExactlyNAttemptsOnFailure ==
    Returned =>
        /\ ~ack <=> firstOk = 0
        /\ ~ack => (nsent = COMMAND_RETRIES /\ lastCmd = CurrentCommand)

\* the loop's re-issue of 'radio rx 0' ran out of attempts
C6_Witness ==
    pc = "rearm" /\ io = "ret" /\ ~ack /\ nsent = COMMAND_RETRIES

\* C7: as soon as a response of the call is 'ok' in either case,
\* send_command_with_retry has returned true, having written the command
\* exactly as many times as the attempt that got the 'ok'; and it returns
\* true in no other way.
C7_ReturnsAtFirstOk ==
    /\ firstOk # 0 => (io = "ret" /\ ack /\ nsent = firstOk)
    /\ (Returned /\ ack) => (firstOk # 0 /\ nsent = firstOk /\ lastCmd = CurrentCommand)

\* the first 'ok' came on the second attempt
C7_Witness ==
    Returned /\ ack /\ firstOk = 2 /\ nsent = 2

\* C8: configure_gateway has run once at startup and once for each
\* 'radio_err' line the receive loop has read, and for nothing else; the run
\* a 'radio_err' line starts begins with nothing written, 'sys reset' in
\* hand.
C8_OneRunPerRadioErr ==
    /\ cfgRuns = (IF ser = "none" THEN 0 ELSE errLines + 1)
    /\ (msg # NoMsg /\ StartsWith(msg, Chars_radio_err)) =>
          /\ pc = "cfg"
          /\ cfgSent = {}
          /\ CurrentCommand = LORA_RESET_COMMAND
    /\ (pc = "cfg" /\ cfgSent # {}) => LORA_RESET_COMMAND \in cfgSent

\* the run started by a 'radio_err' line read a 'radio_err' line as a
\* command response and returned, and no further run was started
C8_Witness ==
    /\ pc = "cfg_ret"
    /\ cfgCaller = "radio_err"
    /\ cfgErrResp
    /\ cfgRuns = 2

\* the payload for a reading
Payload(kwh) == [sensor_id |-> 123, gateway_id |-> "GATEWAY001", data_kwh |-> kwh]

\* C9 as stated: every 'radio_rx' line whose payload decodes to valid JSON
\* ({"TotalActivePower":7}, {} and [1] here) gives exactly one upload.
C9_EveryJsonPayloadUploaded ==
    msg \in {Line_rx_power, Line_rx_empty_object, Line_rx_list} => Len(posted) = 1

\* C9, amended: every 'radio_rx' line whose payload decodes to a JSON object
\* gives exactly one upload, with the configured identifiers and data_kwh the
\* object's TotalActivePower, or 0.0 when the object has none; a payload that
\* is JSON but no object gives no upload.
C9_JsonObjectUploaded ==
    /\ msg = Line_rx_power => posted = << Payload(7) >>
    /\ msg = Line_rx_empty_object => posted = << Payload(0) >>
    /\ msg = Line_rx_list => posted = << >>

\* a reading of 7 was handed to the uploader
C9_Witness ==
    msg = Line_rx_power /\ Len(posted) = 1 /\ posted[1].data_kwh = 7

ProtocolErrorLines == {Chars_radio_rx, Line_rx_hello, Line_rx_odd, Line_rx_nonhex}

\* C10: a step in which the receive loop processes a 'radio_rx' line with a
\* protocol error makes no upload, starts no configuration run, raises
\* nothing, takes the line off the channel and leaves the loop at the
\* re-issue of the receive command.
C10_ProtocolErrorDropped ==
    [][(handled' = handled + 1 /\ msg' \in ProtocolErrorLines) =>
          /\ posted' = << >>
          /\ http' = "-"
          /\ cfgRuns' = cfgRuns
          /\ exit' = "none"
          /\ pc' = "rearm"
          /\ rxbuf' = Tail(rxbuf)]_vars

\* a payload with an odd number of hex digits was processed
C10_Witness ==
    msg = Line_rx_odd /\ pc = "rearm" /\ posted = << >>

----------------------------------------------------------------------------
(* Faults in the receive loop *)

UploadSucceeded == http \in {"200 json", "200 not json"}

\* the message in hand is a 'radio_rx' line that gave no successful upload
RxWithoutUpload == msg # NoMsg /\ StartsWith(msg, Chars_radio_rx) /\ ~UploadSucceeded

\* C11 as stated: after a fault raised while a 'radio_rx' line is handled
\* (decode, parse, handling of the parsed payload, upload) the loop has
\* logged an error or a warning and goes on to re-issue the receive command;
\* the loop is left only by cancellation or by a fault of the channel.
C11_FaultLoggedAndLoopContinues ==
    /\ RxWithoutUpload =>
          /\ logged \in {"error", "warning"}
          /\ pc = "rearm"
          /\ exit = "none"
    /\ (pc \in {"close", "done"} /\ handled > 0) =>
          exit \in {"KeyboardInterrupt in listen", "listen error"}

\* C12 as stated: every 'radio_rx' line that gives no upload leaves at least
\* one error or warning record.
C12_NoSilentDrop ==
    RxWithoutUpload => logged \in {"error", "warning"}

\* C13: after an upload, whatever its outcome (status 200, another status,
\* or a RequestException), exactly one POST was made for the message,
\* nothing was raised, no configuration run was started, nothing is kept
\* for a retry, and the loop is at the re-issue of 'radio rx 0' with a fresh
\* retry budget: a failed upload leaves the session as a successful one does.
C13_UploadFailureLeavesSession ==
    (posted # << >>) =>
        /\ nposts = 1
        /\ pc = "rearm"
        /\ CurrentCommand = LORA_RADIO_RX_COMMAND
        /\ io = "idle" /\ attempt = 1 /\ ncalls = 0
        /\ exit = "none"
        /\ cfgRuns = errLines + 1
        /\ cfgCaller = "-"
        /\ http \in HttpOutcomes

\* an upload ended in a RequestException and the loop is at the re-issue
C13_Witness ==
    /\ http = "RequestException"
    /\ nposts = 1
    /\ pc = "rearm"
    /\ msg = Line_rx_power

----------------------------------------------------------------------------
(* Commands on a port that is not open *)

\* C14: while the port is not open no command is handed to ser.write,
\* nothing is read, nothing is raised; a send_command_with_retry call that
\* has returned made exactly COMMAND_RETRIES send_command calls and returned
\* False, and a configuration run has failed at its first checked command.
C14_NotOpenFailsFast ==
    ser # "open" =>
        /\ lastCmd = "-"
        /\ nsent = 0
        /\ io # "sent"
        /\ rxbuf = << >>
        /\ exit = "none"
        /\ ~ack
        /\ ncalls <= COMMAND_RETRIES
        /\ Returned => ncalls = COMMAND_RETRIES /\ attempt = COMMAND_RETRIES
        /\ pc = "cfg_ret" => cfgFailed = {LORA_RADIO_BW_COMMAND}

\* send_command_with_retry('radio rx 0') has returned on a closed port
C14_Witness ==
    /\ ser = "closed"
    /\ pc = "rearm"
    /\ io = "ret"
    /\ ~ack
    /\ ncalls = COMMAND_RETRIES
    /\ lastCmd = "-"

----------------------------------------------------------------------------
(* How main ends *)

\* C15 as stated: when open_connection fails main sends no command, runs
\* neither configure_gateway nor the receive loop, and ends; main ends for
\* no other error (only the failure to open, or the operator, ends it).
C15_OpenFailureOnlyFatal ==
    /\ exit = "SerialException" =>
          /\ lastCmd = "-"
          /\ cfgRuns = 0
          /\ handled = 0
          /\ pc \in {"close", "done"}
    /\ pc \in {"close", "done"} =>
          exit \in {"SerialException", "KeyboardInterrupt", "KeyboardInterrupt in listen"}

\* C16: once the operator has interrupted, the receive loop (and anything
\* it was doing: processing, reconfiguration, re-issue) is left and main is
\* at or past its finally clause; when main has ended the port is not open;
\* the port is closed only when main has ended, so that no command is
\* written after closure.
C16_StopAndClosure ==
    /\ stopSignal =>
          /\ pc \in {"close", "done"}
          /\ exit \in {"KeyboardInterrupt", "KeyboardInterrupt in listen"}
    /\ pc = "done" => ser # "open"
    /\ ser = "closed" => pc = "done"

\* the operator interrupted a reconfiguration started by the receive loop,
\* after its 'mac pause', and main has closed the port
C16_Witness ==
    /\ stopSignal
    /\ exit = "KeyboardInterrupt in listen"
    /\ cfgRuns = 2
    /\ lastCmd = LORA_MAC_PAUSE_COMMAND
    /\ pc = "done"
    /\ ser = "closed"

----------------------------------------------------------------------------
(* The codec round trip *)

IsPrintableAscii(s) == \A i \in DOMAIN s : s[i] \in PrintableAscii

\* C17: for every printable-ASCII string s, string_to_hex(s) has twice the
\* length of s and hex_to_string(string_to_hex(s)) = s.
C17_CodecRoundTrip ==
    IsPrintableAscii(input_str) =>
        /\ hex_output # NotEncoded => Len(hex_output) = 2 * Len(input_str)
        /\ decoded # NotDecoded => decoded = input_str

\* "~" was encoded as 7E and decoded back
C17_Witness ==
    /\ input_str = << 126 >>
    /\ hex_output = << "7", "E" >>
    /\ decoded = << 126 >>

----------------------------------------------------------------------------
(* The order of the commands of a configuration run *)

\* C18: in every configuration run each write is a retry of the command
\* written last or the next command of the fixed order, so the commands
\* written form a prefix of that order; 'sys reset' and 'mac pause' are never
\* written twice, and a run that has returned wrote both; a run that has
\* returned with every response an 'ok' wrote each of the eight commands
\* once.
C18_CommandOrdering ==
    /\ cfgInOrder
    /\ \E n \in 0..Len(FixedOrder) : cfgSent = { FixedOrder[i] : i \in 1..n }
    /\ ~cfgUncheckedAgain
    /\ pc = "cfg_ret" => {"sys reset", "mac pause"} \subseteq cfgSent
    /\ (pc = "cfg_ret" /\ ~cfgNonOk) =>
          /\ cfgSent = { FixedOrder[i] : i \in 1..Len(FixedOrder) }
          /\ ~cfgRepeatedAfterOk
          /\ cfgFailed = {}

\* a run in which every response was an 'ok' has returned
C18_Witness ==
    /\ pc = "cfg_ret"
    /\ ~cfgNonOk
    /\ Cardinality(cfgSent) = 8
    /\ lastCmd = "radio rx 0"

----------------------------------------------------------------------------
(* Lines of the radio and responses to commands *)

\* C19 as stated: a 'radio_rx' line at the head of the input buffer while a
\* command waits for its response is not taken off the channel by the
\* command exchange (it stays there for the receive loop).
C19_NoPacketLostToCommand ==
    [][(io = "sent" /\ rxbuf # << >> /\ StartsWith(Head(rxbuf), Chars_radio_rx)) =>
          Len(rxbuf') >= Len(rxbuf)]_vars

\* C20 as stated: when send_command_with_retry returns True, the 'ok' it
\* read was not already in the input buffer when the command was written.
C20_AckAnswersItsCommand ==
    (Returned /\ ack) => ~stale

====
